---------------------------- MODULE Spec2Model ----------------------------
(***************************************************************************)
(* Model of the cricket analytics scripts.                                 *)
(*                                                                         *)
(*  - app.py: the venue database, CricketAI.calculate_pitch_physics and    *)
(*    CricketAI.player_dna_eval, driven by one run of the script (widgets  *)
(*    are read, the physics is computed, the simulation button is          *)
(*    pressed).                                                            *)
(*  - robust_cricaii.py: get_cleaned_data (the per-file loop with its two  *)
(*    try blocks) and the dashboard that follows it.                       *)
(*  - robust_cricai.py: analyze_matchup.                                   *)
(*                                                                         *)
(* Numbers.  Python floats are modelled as exact rationals in fixed point: *)
(* a float f is the integer f * Unit.  Every constant and every product of *)
(* the physics code is a multiple of 1/Unit for integer slider values, so  *)
(* no precision is lost; the last-bit rounding of IEEE doubles is not      *)
(* modelled.  The 'ball' column of a delivery (over.ball, e.g. 0.1) is     *)
(* held in tenths.  A strike rate is held as a fraction [num, den].        *)
(***************************************************************************)
EXTENDS Integers, Sequences, FiniteSets, TLC

VARIABLES
    \* ---- app.py ----
    venue, temp, humidity, clouds,      \* sidebar widgets
    now_hour,                           \* local wall-clock hour when the run starts
    hours,                              \* the hours datetime.now() returned, in order
    physics,                            \* result of calculate_pitch_physics
    p_role, p_press, p_spin, p_accel,   \* player widgets
    score, reports,                     \* result of player_dna_eval
    pc,                                 \* position of the app.py script
    \* ---- robust_cricaii.py / robust_cricai.py ----
    fetch_ok,                           \* whether download + ZipFile succeed
    listing,                            \* z.namelist(): sequence of archive members
    idx,                                \* loop position in z.namelist()[:150]
    match_data_list,                    \* frames accepted so far
    data,                               \* the ledger get_cleaned_data returned
    load_error,                         \* st.error was shown by get_cleaned_data
    batsman, bowler,                    \* the selected pair
    outcome,                            \* what the query / dashboard produced
    spc                                 \* position of the scouting script

appvars   == <<venue, temp, humidity, clouds, now_hour, hours, physics,
               p_role, p_press, p_spin, p_accel, score, reports, pc>>
scoutvars == <<fetch_ok, listing, idx, match_data_list, data, load_error,
               batsman, bowler, outcome, spc>>
vars      == <<appvars, scoutvars>>

Max(a, b) == IF a >= b THEN a ELSE b
Min(a, b) == IF a <= b THEN a ELSE b

(***************************************************************************)
(* app.py                                                                  *)
(***************************************************************************)

\* Fixed-point scale of the float model: 1/2000 (altitude penalty) times
\* 1/10 leaves every term of the physics an integer.
Unit == 20000

\* The float n/d.
Frac(n, d) == (n * Unit) \div d

VENUES_DATABASE ==
    [v \in {"Wankhede, Mumbai", "Chepauk, Chennai", "Perth (Optus), AUS", "Lord's, London"} |->
        CASE v = "Wankhede, Mumbai"   -> [soil |-> "Red",        clay |-> Frac(40, 100), altitude |-> 10, avg_temp |-> 30, drainage |-> "High"]
          [] v = "Chepauk, Chennai"   -> [soil |-> "Black",      clay |-> Frac(70, 100), altitude |-> 5,  avg_temp |-> 33, drainage |-> "Medium"]
          [] v = "Perth (Optus), AUS" -> [soil |-> "Clay-Heavy", clay |-> Frac(80, 100), altitude |-> 20, avg_temp |-> 28, drainage |-> "Extreme"]
          [] v = "Lord's, London"     -> [soil |-> "Loam",       clay |-> Frac(30, 100), altitude |-> 35, avg_temp |-> 22, drainage |-> "Low"]]

Venues == DOMAIN VENUES_DATABASE

Roles == {"Power Hitter", "Anchor", "Wrist Spinner", "Swing Bowler"}

\* spin_index = 0.4 + (0.4 if v['soil'] == "Black" and temp > 31 else 0), mutated:
\* the threshold of the comment above it (heat > 32C) instead of 31.
spin_index_at32(venue_name, t) ==
    Frac(4, 10) + (IF VENUES_DATABASE[venue_name].soil = "Black" /\ t > 32 THEN Frac(4, 10) ELSE 0)

\* spin_index = 0.4 + (0.4 if v['soil'] == "Black" and temp > 31 else 0)
spin_index_of(venue_name, t) ==
    Frac(4, 10) + (IF VENUES_DATABASE[venue_name].soil = "Black" /\ t > 31 THEN Frac(4, 10) ELSE 0)

\* swing without the floor at 0 (mutant of swing_prob_of).
swing_prob_nofloor(venue_name, h, c) ==
    (Frac(h, 100) * Frac(c, 100)) \div Unit - Frac(VENUES_DATABASE[venue_name].altitude, 2000)

\* base_swing = (humidity / 100) * (clouds / 100)
\* altitude_penalty = v['altitude'] / 2000
\* swing_prob = max(0, base_swing - altitude_penalty)
swing_prob_of(venue_name, h, c) ==
    LET base_swing       == (Frac(h, 100) * Frac(c, 100)) \div Unit
        altitude_penalty == Frac(VENUES_DATABASE[venue_name].altitude, 2000)
    IN  Max(0, base_swing - altitude_penalty)

\* is_night = datetime.now().hour >= 18 or datetime.now().hour <= 4
\* The two calls of datetime.now() are two reads of the wall clock: h1 is the
\* hour the first returned, h2 the hour the second returned (`or` evaluates
\* the second only when the first comparison is false).
is_night_of(h1, h2) == h1 >= 18 \/ h2 <= 4

\* dew_factor = 0.85 if is_night and humidity > 70 else 0.1
dew_factor_of(h1, h2, h) ==
    IF is_night_of(h1, h2) /\ h > 70 THEN Frac(85, 100) ELSE Frac(1, 10)

calculate_pitch_physics(venue_name, t, h, c, h1, h2) ==
    [swing |-> swing_prob_of(venue_name, h, c),
     spin  |-> spin_index_of(venue_name, t),
     dew   |-> dew_factor_of(h1, h2, h)]

\* What the local wall clock can show at the second read, microseconds after it
\* showed hour h1: the same hour, the next one (the hour ticked over between
\* the reads), or the previous one (datetime.now() is naive local time, which
\* is set back one hour when daylight saving time ends).
ClockAfter(h1) == {h1, (h1 + 1) % 24, (h1 + 23) % 24}

CHOKE == "CHOKE ALERT"
SPIN_TRAP == "SPIN TRAP"
ACCELERATOR == "ACCELERATOR"

\* player_dna_eval with an accelerator bonus mirroring the choke penalty and
\* the final clamp left out.
player_dna_eval_unclamped(role, pressure, spin_skill, accel_rating, ph) ==
    LET s1 == IF pressure < 45 /\ ph.dew > Frac(7, 10) THEN 80 - 25 ELSE 80
        a1 == IF pressure < 45 /\ ph.dew > Frac(7, 10) THEN <<CHOKE>> ELSE <<>>
        s2 == IF ph.spin > Frac(7, 10) /\ spin_skill < 50 THEN s1 - 20 ELSE s1
        a2 == IF ph.spin > Frac(7, 10) /\ spin_skill < 50 THEN Append(a1, SPIN_TRAP) ELSE a1
        s3 == IF accel_rating > 80 THEN s2 + 25 ELSE s2
        a3 == IF accel_rating > 80 THEN Append(a2, ACCELERATOR) ELSE a2
    IN  [score |-> s3, alerts |-> a3]

\* player_dna_eval with the three rules written as one if / elif / elif chain.
player_dna_eval_elif(role, pressure, spin_skill, accel_rating, ph) ==
    LET r == IF pressure < 45 /\ ph.dew > Frac(7, 10)
                 THEN [s |-> 80 - 25, a |-> <<CHOKE>>]
             ELSE IF ph.spin > Frac(7, 10) /\ spin_skill < 50
                 THEN [s |-> 80 - 20, a |-> <<SPIN_TRAP>>]
             ELSE IF accel_rating > 80
                 THEN [s |-> 80 + 15, a |-> <<ACCELERATOR>>]
             ELSE [s |-> 80, a |-> <<>>]
    IN  [score |-> Max(0, Min(100, r.s)), alerts |-> r.a]

\* score = 80; alerts = []; three independent ifs, each adjusting the score
\* and appending its alert; return max(0, min(100, score)), alerts
player_dna_eval(role, pressure, spin_skill, accel_rating, ph) ==
    LET s1 == IF pressure < 45 /\ ph.dew > Frac(7, 10) THEN 80 - 25 ELSE 80
        a1 == IF pressure < 45 /\ ph.dew > Frac(7, 10) THEN <<CHOKE>> ELSE <<>>
        s2 == IF ph.spin > Frac(7, 10) /\ spin_skill < 50 THEN s1 - 20 ELSE s1
        a2 == IF ph.spin > Frac(7, 10) /\ spin_skill < 50 THEN Append(a1, SPIN_TRAP) ELSE a1
        s3 == IF accel_rating > 80 THEN s2 + 15 ELSE s2
        a3 == IF accel_rating > 80 THEN Append(a2, ACCELERATOR) ELSE a2
    IN  [score |-> Max(0, Min(100, s3)), alerts |-> a3]

NoPhysics == [swing |-> -1, spin |-> -1, dew |-> -1]

(***************************************************************************)
(* robust_cricaii.py: get_cleaned_data                                     *)
(***************************************************************************)

NaN == "NaN"

AllColumns == {"striker", "bowler", "runs_off_bat", "wicket_type", "ball"}

\* One delivery; ball is the 'ball' column (over.ball) in tenths.
Row(s, b, r, w, bl) ==
    [striker |-> s, bowler |-> b, runs_off_bat |-> r, wicket_type |-> w, ball |-> bl]

\* pd.DataFrame(): no columns, no rows.
EmptyFrame == [cols |-> {}, rows |-> <<>>]

\* Archive members.  A name is its sequence of tokens; parses says whether
\* pd.read_csv returns (TRUE) or raises (FALSE); frame is what it returns.
File_A ==
    [name |-> <<"1001", ".csv">>, parses |-> TRUE,
     frame |-> [cols |-> AllColumns,
                rows |-> << Row("Kohli", "Starc", 1, NaN, 1),
                            Row("Kohli", "Starc", 4, NaN, 61),
                            Row("Kohli", "Starc", 0, NaN, 150),
                            Row("Kohli", "Starc", 6, NaN, 151),
                            Row("Kohli", "Starc", 0, NaN, 196) >>]]
File_B ==
    [name |-> <<"1002", ".csv">>, parses |-> TRUE,
     frame |-> [cols |-> AllColumns,
                rows |-> << Row("Rohit", "Starc", 0, "bowled", 200),
                            Row("Kohli", "Bumrah", 4, NaN, 60),
                            Row("Rohit", "Bumrah", 1, NaN, 0),
                            Row("Kohli", "Bumrah", 6, "caught", 201),
                            Row("kohli", "Starc", 2, NaN, 5) >>]]
File_NoBowler ==
    [name |-> <<"1003", ".csv">>, parses |-> TRUE,
     frame |-> [cols |-> AllColumns \ {"bowler"},
                rows |-> << Row("Kohli", NaN, 4, NaN, 11) >>]]
File_Corrupt ==
    [name |-> <<"1004", ".csv">>, parses |-> FALSE, frame |-> EmptyFrame]
File_Info ==
    [name |-> <<"1001", "_info", ".csv">>, parses |-> TRUE,
     frame |-> [cols |-> AllColumns,
                rows |-> << Row("Kohli", "Starc", 3, NaN, 12) >>]]
File_Readme ==
    [name |-> <<"README", ".txt">>, parses |-> FALSE, frame |-> EmptyFrame]
File_NoRows ==
    [name |-> <<"1005", ".csv">>, parses |-> TRUE,
     frame |-> [cols |-> AllColumns, rows |-> <<>>]]

Files == {File_A, File_B, File_NoBowler, File_Corrupt, File_Info, File_Readme, File_NoRows}

\* z.namelist()[:150]: the cap, scaled down.
FileCap == 2

\* Listings run one file past the cap.
MaxListing == FileCap + 1

RECURSIVE SeqsUpTo(_, _)
SeqsUpTo(S, n) ==
    IF n = 0 THEN {<<>>}
    ELSE LET shorter == SeqsUpTo(S, n - 1)
         IN  shorter \cup {Append(q, x) : q \in {t \in shorter : Len(t) = n - 1}, x \in S}

Listings == SeqsUpTo(Files, MaxListing)

\* z.namelist()[:150]
capped(names) == SubSeq(names, 1, Min(Len(names), FileCap))

\* filename.endswith(tok1 + tok2 ...) on tokenised names.
EndsWith(name, suffix) ==
    /\ Len(name) >= Len(suffix)
    /\ SubSeq(name, Len(name) - Len(suffix) + 1, Len(name)) = suffix

\* 'README' in filename
Contains(name, tok) == \E i \in 1..Len(name) : name[i] = tok

\* filename.endswith('.csv') and not filename.endswith('_info.csv') and 'README' not in filename
is_match_file(name) ==
    /\ EndsWith(name, <<".csv">>)
    /\ ~EndsWith(name, <<"_info", ".csv">>)
    /\ ~Contains(name, "README")

\* Column check that looks for the striker column only (mutant of has_standard_columns).
has_striker_column(df) == "striker" \in df.cols

\* 'striker' in df.columns and 'bowler' in df.columns
has_standard_columns(df) == "striker" \in df.cols /\ "bowler" \in df.cols

RECURSIVE ConcatRows(_)
ConcatRows(frames) ==
    IF frames = <<>> THEN <<>>
    ELSE Head(frames).rows \o ConcatRows(Tail(frames))

\* pd.concat(match_data_list, ignore_index=True): raises ValueError on an empty
\* list, otherwise the union of the columns and the rows in list order.
pd_concat(frames) ==
    IF frames = <<>>
        THEN [raised |-> TRUE, value |-> EmptyFrame]
        ELSE [raised |-> FALSE,
              value  |-> [cols |-> UNION {frames[i].cols : i \in 1..Len(frames)},
                          rows |-> ConcatRows(frames)]]

\* DataFrame.empty: any axis of length 0.
is_empty(df) == df.cols = {} \/ df.rows = <<>>

(***************************************************************************)
(* robust_cricai.py: analyze_matchup                                       *)
(***************************************************************************)

None == [none |-> TRUE]

RECURSIVE SumRuns(_)
\* rows['runs_off_bat'].sum()
SumRuns(rows) ==
    IF rows = <<>> THEN 0 ELSE Head(rows).runs_off_bat + SumRuns(Tail(rows))

\* The filter with the bowler condition left out (mutant of h2h_rows).
h2h_rows_striker_only(df, bat, bowl) ==
    SelectSeq(df.rows, LAMBDA r : r.striker = bat)

\* df[(df['striker'] == batsman) & (df['bowler'] == bowler)]
h2h_rows(df, bat, bowl) ==
    SelectSeq(df.rows, LAMBDA r : r.striker = bat /\ r.bowler = bowl)

\* A column lookup df[c] raises KeyError when the frame has no column c.
KeyErrorOn(df, columns) == ~(columns \subseteq df.cols)

analyze_matchup(df, bat, bowl) ==
    IF KeyErrorOn(df, {"striker", "bowler"})
        THEN [raised |-> TRUE, stats |-> None, msg |-> "KeyError"]
    ELSE LET h2h == h2h_rows(df, bat, bowl) IN
    IF h2h = <<>>
        THEN [raised |-> FALSE, stats |-> None,
              msg |-> "No historical H2H data found. Switching to Skill-Type analysis..."]
    ELSE IF KeyErrorOn(df, {"runs_off_bat", "wicket_type"})
        THEN [raised |-> TRUE, stats |-> None, msg |-> "KeyError"]
    ELSE LET balls == Len(h2h)
             runs  == SumRuns(h2h)
         IN  [raised |-> FALSE,
              stats  |-> ( "Balls Faced" :> balls
                        @@ "Runs Scored" :> runs
                        @@ "Dismissals"  :> Len(SelectSeq(h2h, LAMBDA r : r.wicket_type # NaN))
                        @@ "Dots"        :> Len(SelectSeq(h2h, LAMBDA r : r.runs_off_bat = 0))
                        @@ "Boundaries"  :> Len(SelectSeq(h2h, LAMBDA r : r.runs_off_bat \in {4, 6}))
                        @@ "Strike Rate" :> [num |-> runs * 100, den |-> balls] ),
              msg    |-> "H2H Data Found"]

(***************************************************************************)
(* robust_cricaii.py: the dashboard                                        *)
(***************************************************************************)

\* The 'ball' column holds tenths: the bin edge e is the value e * 10.
Tenths(e) == e * 10

Labels == <<"Powerplay", "Middle", "Death">>

\* pd.cut with left-closed bins, right=False (mutant of pd_cut).
pd_cut_left_closed(x, bins, labels) ==
    IF \E i \in 1..Len(labels) : Tenths(bins[i]) <= x /\ x < Tenths(bins[i + 1])
        THEN labels[CHOOSE i \in 1..Len(labels) : Tenths(bins[i]) <= x /\ x < Tenths(bins[i + 1])]
        ELSE NaN

\* pd.cut(x, bins=bins, labels=labels): bin i is (bins[i], bins[i+1]], a value
\* in no bin is NaN.
pd_cut(x, bins, labels) ==
    IF \E i \in 1..Len(labels) : Tenths(bins[i]) < x /\ x <= Tenths(bins[i + 1])
        THEN labels[CHOOSE i \in 1..Len(labels) : Tenths(bins[i]) < x /\ x <= Tenths(bins[i + 1])]
        ELSE NaN

\* b_stats['phase'] = pd.cut(b_stats['ball'], bins=[0, 6, 15, 20], labels=[...])
phase_of(row) == pd_cut(row.ball, <<0, 6, 15, 20>>, Labels)

\* b_stats = data[data['striker'] == batsman]
\* b_stats.groupby('phase', observed=False)['runs_off_bat'].sum(): one entry
\* per label, 0 for a label without rows.
phase_performance(df, bat) ==
    LET b_stats == SelectSeq(df.rows, LAMBDA r : r.striker = bat)
    IN  [l \in {Labels[i] : i \in 1..Len(Labels)} |->
            SumRuns(SelectSeq(b_stats, LAMBDA r : phase_of(r) = l))]

\* The head-to-head column of the dashboard.
dashboard_h2h(df, bat, bowl) ==
    LET h2h == h2h_rows(df, bat, bowl) IN
    IF h2h # <<>>
        THEN LET balls == Len(h2h)
                 runs  == SumRuns(h2h)
                 outs  == Len(SelectSeq(h2h, LAMBDA r : r.wicket_type # NaN))
                 dots  == Len(SelectSeq(h2h, LAMBDA r : r.runs_off_bat = 0))
             IN  [found |-> TRUE, balls |-> balls, runs |-> runs, outs |-> outs, dots |-> dots,
                  strike_rate |-> [num |-> runs * 100, den |-> balls],
                  dot_pct     |-> [num |-> dots * 100, den |-> balls]]
        ELSE [found |-> FALSE,
              info  |-> "No direct historical matchup found in this sample. Displaying player archetypes..."]

\* sorted(data['striker'].unique()), sorted(data['bowler'].unique())
Strikers(df) == {df.rows[i].striker : i \in 1..Len(df.rows)}
Bowlers(df)  == {df.rows[i].bowler : i \in 1..Len(df.rows)}

\* The except clause with the exception left to propagate, as in
\* get_historical_data (mutant of on_exception).
on_exception_propagate == [data |-> EmptyFrame, error |-> FALSE, escaped |-> TRUE]

\* except Exception as e: st.error(...); return pd.DataFrame()
on_exception == [data |-> EmptyFrame, error |-> TRUE, escaped |-> FALSE]

\* return pd.concat(match_data_list, ignore_index=True), inside the outer try.
get_cleaned_data_return(frames) ==
    LET c == pd_concat(frames)
    IN  IF c.raised THEN on_exception
        ELSE [data |-> c.value, error |-> FALSE, escaped |-> FALSE]

(***************************************************************************)
(* State machines                                                          *)
(***************************************************************************)

\* Widget defaults of app.py (lines 68-71, 94-99).
AppDefaults ==
    /\ venue = "Wankhede, Mumbai" /\ temp = 30 /\ humidity = 75 /\ clouds = 20
    /\ p_role = "Power Hitter" /\ p_press = 80 /\ p_spin = 70 /\ p_accel = 60

AppFresh ==
    /\ hours = <<>> /\ physics = NoPhysics /\ score = -1 /\ reports = <<>>

\* The app.py script is not running.
AppIdle == AppDefaults /\ AppFresh /\ now_hour = 12 /\ pc = "off"

\* The scouting script is not running.
ScoutIdle ==
    /\ fetch_ok = TRUE /\ listing = <<>> /\ idx = 0 /\ match_data_list = <<>>
    /\ data = EmptyFrame /\ load_error = FALSE
    /\ batsman = NaN /\ bowler = NaN /\ outcome = [kind |-> "none"] /\ spc = "off"

\* Half-width of the player-attribute samples around each rule threshold.
Span == 1

\* A 0..100 slider sampled at its ends and around the threshold t.
Near(t) == {0, 100} \cup ((t - Span)..(t + Span))

\* One run of app.py: the widgets hold any values of the samples.  The physics
\* inputs sit on both sides of each threshold the scorer reads.
Init ==
    /\ venue \in Venues
    /\ temp \in {31, 32}
    /\ humidity \in {70, 71}
    /\ clouds = 20
    /\ now_hour \in {4, 12}
    /\ p_role \in Roles
    /\ p_press \in Near(45)
    /\ p_spin \in Near(50)
    /\ p_accel \in Near(80)
    /\ AppFresh
    /\ pc = "start"
    /\ ScoutIdle

\* One run of app.py with the physics inputs swept over their full ranges, one
\* output's inputs at a time, the rest at the widget defaults.
InitPitch ==
    /\ \/ /\ venue \in Venues /\ temp \in 10..45
          /\ humidity = 75 /\ clouds = 20 /\ now_hour = 12
       \/ /\ venue \in Venues /\ humidity \in 0..100 /\ clouds \in 0..100
          /\ temp = 30 /\ now_hour = 12
       \/ /\ humidity \in 0..100 /\ now_hour \in 0..23
          /\ venue = "Chepauk, Chennai" /\ temp = 30 /\ clouds = 20
    /\ p_role = "Power Hitter" /\ p_press = 80 /\ p_spin = 70 /\ p_accel = 60
    /\ AppFresh
    /\ pc = "start"
    /\ ScoutIdle

\* physics = ai.calculate_pitch_physics(venue, temp, humidity, clouds)
CalcPitchPhysics ==
    /\ pc = "start"
    /\ \E h2 \in ClockAfter(now_hour) :
        /\ physics' = calculate_pitch_physics(venue, temp, humidity, clouds, now_hour, h2)
        /\ hours' = IF now_hour >= 18 THEN <<now_hour>> ELSE <<now_hour, h2>>
    /\ pc' = "dashboard"
    /\ UNCHANGED <<venue, temp, humidity, clouds, now_hour,
                   p_role, p_press, p_spin, p_accel, score, reports>>
    /\ UNCHANGED scoutvars

\* if st.button("RUN TACTICAL SIMULATION"): score, reports = ai.player_dna_eval(...)
RunTacticalSimulation ==
    /\ pc = "dashboard"
    /\ LET r == player_dna_eval(p_role, p_press, p_spin, p_accel, physics)
       IN  /\ score' = r.score
           /\ reports' = r.alerts
    /\ pc' = "done"
    /\ UNCHANGED <<venue, temp, humidity, clouds, now_hour, hours, physics,
                   p_role, p_press, p_spin, p_accel>>
    /\ UNCHANGED scoutvars

Next == CalcPitchPhysics \/ RunTacticalSimulation

Spec == Init /\ [][Next]_vars

SpecPitch == InitPitch /\ [][Next]_vars

\* ---- the scouting script ----

\* Names offered to analyze_matchup: the players of the archive and a
\* differently-cased spelling.
QueryBatsmen == {"Kohli", "Rohit", "kohli"}
QueryBowlers == {"Starc", "Bumrah", "starc"}

InitScout ==
    /\ fetch_ok \in BOOLEAN
    /\ listing \in (IF fetch_ok THEN Listings ELSE {<<>>})
    /\ idx = 0 /\ match_data_list = <<>> /\ data = EmptyFrame /\ load_error = FALSE
    /\ batsman = NaN /\ bowler = NaN /\ outcome = [kind |-> "none"]
    /\ spc = "fetch"
    /\ AppIdle

\* response = requests.get(url); z = zipfile.ZipFile(...); match_data_list = []
FetchOk ==
    /\ spc = "fetch" /\ fetch_ok
    /\ idx' = 1 /\ match_data_list' = <<>> /\ spc' = "loop"
    /\ UNCHANGED <<fetch_ok, listing, data, load_error, batsman, bowler, outcome>>
    /\ UNCHANGED appvars

\* The download or the archive raises: the outer except returns the empty frame.
FetchFails ==
    /\ spc = "fetch" /\ ~fetch_ok
    /\ data' = on_exception.data
    /\ load_error' = on_exception.error
    /\ spc' = IF on_exception.escaped THEN "crashed" ELSE "loaded"
    /\ UNCHANGED <<fetch_ok, listing, idx, match_data_list, batsman, bowler, outcome>>
    /\ UNCHANGED appvars

InLoop == spc = "loop" /\ idx <= Len(capped(listing))

\* The name test fails: the file is not opened.
SkipName ==
    /\ InLoop
    /\ ~is_match_file(capped(listing)[idx].name)
    /\ idx' = idx + 1
    /\ UNCHANGED <<fetch_ok, listing, match_data_list, data, load_error, batsman, bowler, outcome, spc>>
    /\ UNCHANGED appvars

\* pd.read_csv raises: except Exception: continue
SkipCorrupt ==
    /\ InLoop
    /\ is_match_file(capped(listing)[idx].name)
    /\ ~capped(listing)[idx].parses
    /\ idx' = idx + 1
    /\ UNCHANGED <<fetch_ok, listing, match_data_list, data, load_error, batsman, bowler, outcome, spc>>
    /\ UNCHANGED appvars

\* The frame lacks a standard column: nothing is appended.
SkipColumns ==
    /\ InLoop
    /\ is_match_file(capped(listing)[idx].name)
    /\ capped(listing)[idx].parses
    /\ ~has_standard_columns(capped(listing)[idx].frame)
    /\ idx' = idx + 1
    /\ UNCHANGED <<fetch_ok, listing, match_data_list, data, load_error, batsman, bowler, outcome, spc>>
    /\ UNCHANGED appvars

\* match_data_list.append(df)
AcceptFile ==
    /\ InLoop
    /\ is_match_file(capped(listing)[idx].name)
    /\ capped(listing)[idx].parses
    /\ has_standard_columns(capped(listing)[idx].frame)
    /\ match_data_list' = Append(match_data_list, capped(listing)[idx].frame)
    /\ idx' = idx + 1
    /\ UNCHANGED <<fetch_ok, listing, data, load_error, batsman, bowler, outcome, spc>>
    /\ UNCHANGED appvars

\* The loop is over: return pd.concat(...), or the outer except.
ReturnLedger ==
    /\ spc = "loop" /\ idx > Len(capped(listing))
    /\ LET r == get_cleaned_data_return(match_data_list)
       IN  /\ data' = r.data
           /\ load_error' = r.error
           /\ spc' = IF r.escaped THEN "crashed" ELSE "loaded"
    /\ UNCHANGED <<fetch_ok, listing, idx, match_data_list, batsman, bowler, outcome>>
    /\ UNCHANGED appvars

\* if not data.empty: the selections, the head-to-head column and the phase chart.
ShowDashboard ==
    /\ spc = "loaded" /\ ~is_empty(data)
    /\ \E bat \in Strikers(data), bowl \in Bowlers(data) :
        /\ batsman' = bat /\ bowler' = bowl
        /\ outcome' = [kind  |-> "dashboard",
                       h2h   |-> dashboard_h2h(data, bat, bowl),
                       phase |-> phase_performance(data, bat)]
    /\ spc' = "shown"
    /\ UNCHANGED <<fetch_ok, listing, idx, match_data_list, data, load_error>>
    /\ UNCHANGED appvars

\* else: st.warning("Data is still loading or unavailable. ...")
ShowUnavailable ==
    /\ spc = "loaded" /\ is_empty(data)
    /\ outcome' = [kind |-> "unavailable"]
    /\ spc' = "shown"
    /\ UNCHANGED <<fetch_ok, listing, idx, match_data_list, data, load_error, batsman, bowler>>
    /\ UNCHANGED appvars

\* stats, msg = analyze_matchup(ledger, batsman, bowler) on the loaded ledger.
AnalyzeMatchup ==
    /\ spc = "loaded"
    /\ \E bat \in QueryBatsmen, bowl \in QueryBowlers :
        /\ batsman' = bat /\ bowler' = bowl
        /\ outcome' = [kind |-> "analyze", result |-> analyze_matchup(data, bat, bowl)]
    /\ spc' = "analyzed"
    /\ UNCHANGED <<fetch_ok, listing, idx, match_data_list, data, load_error>>
    /\ UNCHANGED appvars

NextScout ==
    \/ FetchOk \/ FetchFails
    \/ SkipName \/ SkipCorrupt \/ SkipColumns \/ AcceptFile
    \/ ReturnLedger
    \/ ShowDashboard \/ ShowUnavailable
    \/ AnalyzeMatchup

SpecScout == InitScout /\ [][NextScout]_vars

(***************************************************************************)
(* Properties of app.py                                                    *)
(***************************************************************************)

Evaluated == pc = "done"
Computed  == pc \in {"dashboard", "done"}

\* C1: whatever the player inputs, the role and the physics record, the score
\* player_dna_eval returns is an integer between 0 and 100.
C1_ScoreInRange == Evaluated => score \in 0..100

\* C1 witness: both penalties applied and no bonus, the lowest score.
C1_Witness == Evaluated /\ score = 35 /\ reports = <<CHOKE, SPIN_TRAP>>

ChokeFires == p_press < 45 /\ physics.dew * 10 > 7 * Unit
SpinFires  == physics.spin * 10 > 7 * Unit /\ p_spin < 50
AccelFires == p_accel > 80

Occurrences(tag) == Cardinality({i \in 1..Len(reports) : reports[i] = tag})
Rank(tag) == CASE tag = CHOKE -> 1 [] tag = SPIN_TRAP -> 2 [] tag = ACCELERATOR -> 3 [] OTHER -> 0
Delta(fires, d) == IF fires THEN d ELSE 0

\* C2: the three rules are independent and cumulative: each tag is in the list
\* iff its own condition holds, at most once, the tags are in the order choke,
\* spin trap, accelerator, and the score is clamp(80 - 25 - 20 + 15) over the
\* rules that fired.
C2_RulesCumulative ==
    Evaluated =>
        /\ Occurrences(CHOKE) = Delta(ChokeFires, 1)
        /\ Occurrences(SPIN_TRAP) = Delta(SpinFires, 1)
        /\ Occurrences(ACCELERATOR) = Delta(AccelFires, 1)
        /\ \A i \in 1..Len(reports) : Rank(reports[i]) > 0
        /\ \A i, j \in 1..Len(reports) : i < j => Rank(reports[i]) < Rank(reports[j])
        /\ score = Max(0, Min(100, 80 - Delta(ChokeFires, 25) - Delta(SpinFires, 20)
                                      + Delta(AccelFires, 15)))
        /\ (ChokeFires /\ ~SpinFires /\ ~AccelFires => score = 55)

\* C2 witness: all three rules fire in one evaluation.
C2_Witness ==
    Evaluated /\ reports = <<CHOKE, SPIN_TRAP, ACCELERATOR>> /\ score = 50

Night(h) == h >= 18 \/ h <= 4

\* C4: the dew factor is 0.1 or 0.85, and it is 0.85 exactly when humidity > 70
\* and the hour of the evaluation instant is >= 18 or <= 4, one hour value
\* deciding both comparisons: some hour the clock showed during the call
\* explains the result.
C4_DewSingleHour ==
    Computed =>
        /\ physics.dew * 100 \in {10 * Unit, 85 * Unit}
        /\ \E i \in 1..Len(hours) :
              physics.dew * 100 = 85 * Unit <=> (humidity > 70 /\ Night(hours[i]))

\* C5: swing = max(0, (humidity/100)*(clouds/100) - altitude/2000), within
\* [0, 1], and 0 whenever humidity or cloud cover is 0; Chepauk at 75 / 20
\* gives 0.1475.
C5_SwingFormula ==
    Computed =>
        LET alt == VENUES_DATABASE[venue].altitude
        IN  /\ physics.swing * 10000 = Max(0, (humidity * clouds - alt * 5) * Unit)
            /\ physics.swing >= 0 /\ physics.swing <= Unit
            /\ (humidity = 0 \/ clouds = 0 => physics.swing = 0)
            /\ (venue = "Chepauk, Chennai" /\ humidity = 75 /\ clouds = 20
                    => physics.swing * 10000 = 1475 * Unit)

\* C5 witness: the Chepauk example.
C5_Witness ==
    /\ Computed /\ venue = "Chepauk, Chennai" /\ humidity = 75 /\ clouds = 20
    /\ physics.swing * 10000 = 1475 * Unit

(***************************************************************************)
(* Properties of the loader, the matchup query and the dashboard           *)
(***************************************************************************)

Loaded == spc \in {"loaded", "shown", "analyzed"}

\* Rows of the ledger between the selected batsman and bowler.
Matching ==
    {i \in 1..Len(data.rows) :
        data.rows[i].striker = batsman /\ data.rows[i].bowler = bowler}

\* Rows of the ledger of the selected batsman with the ball value in lo..hi.
BatsmanRows(lo, hi) ==
    {i \in 1..Len(data.rows) :
        data.rows[i].striker = batsman /\ lo <= data.rows[i].ball /\ data.rows[i].ball <= hi}

RECURSIVE RunsOver(_)
RunsOver(I) ==
    IF I = {} THEN 0
    ELSE LET i == CHOOSE j \in I : TRUE
         IN  data.rows[i].runs_off_bat + RunsOver(I \ {i})

\* C6: when no ledger row matches the pair, analyze_matchup returns no stats
\* and the explanatory status, for every ledger including the empty one of a
\* load that accepted no file; it never raises there and never returns stats
\* with Balls Faced = 0; the dashboard likewise shows its no-matchup notice.
C6_NotFoundNeverRaises ==
    /\ (outcome.kind = "analyze" /\ Matching = {}) =>
            /\ ~outcome.result.raised
            /\ outcome.result.stats = None
            /\ outcome.result.msg = "No historical H2H data found. Switching to Skill-Type analysis..."
    /\ (outcome.kind = "analyze" /\ outcome.result.stats # None) =>
            outcome.result.stats["Balls Faced"] > 0
    /\ (outcome.kind = "dashboard" /\ Matching = {}) => ~outcome.h2h.found
    /\ (outcome.kind = "dashboard" /\ outcome.h2h.found) => outcome.h2h.balls > 0

\* C7: when a row matches the exact pair, the statistics are those of the
\* matching rows and of no others.
C7_H2HStatsExact ==
    (outcome.kind = "analyze" /\ Matching # {}) =>
        LET st == outcome.result.stats
            n  == Cardinality(Matching)
        IN  /\ ~outcome.result.raised
            /\ st # None
            /\ st["Balls Faced"] = n
            /\ st["Runs Scored"] = RunsOver(Matching)
            /\ st["Dismissals"] = Cardinality({i \in Matching : data.rows[i].wicket_type # NaN})
            /\ st["Dots"] = Cardinality({i \in Matching : data.rows[i].runs_off_bat = 0})
            /\ st["Boundaries"] = Cardinality({i \in Matching : data.rows[i].runs_off_bat \in {4, 6}})
            /\ st["Strike Rate"].den > 0
            /\ st["Strike Rate"].num * n = RunsOver(Matching) * 100 * st["Strike Rate"].den
            /\ st["Dots"] + st["Boundaries"] <= n
            /\ st["Dismissals"] <= n

\* C7 witness: the five deliveries 1, 4, 0, 6, 0 of one pair inside a larger
\* ledger: 5 balls, 11 runs, 2 dots, 2 boundaries, strike rate 220.
C7_Witness ==
    /\ outcome.kind = "analyze" /\ batsman = "Kohli" /\ bowler = "Starc"
    /\ Len(data.rows) > 5
    /\ outcome.result.stats # None
    /\ outcome.result.stats["Balls Faced"] = 5
    /\ outcome.result.stats["Runs Scored"] = 11
    /\ outcome.result.stats["Dots"] = 2
    /\ outcome.result.stats["Boundaries"] = 2
    /\ outcome.result.stats["Strike Rate"].num = 220 * outcome.result.stats["Strike Rate"].den

PhaseLabels == {"Powerplay", "Middle", "Death"}

Acceptable(f) ==
    /\ f.name[Len(f.name)] = ".csv"
    /\ ~(Len(f.name) >= 2 /\ f.name[Len(f.name) - 1] = "_info")
    /\ \A i \in 1..Len(f.name) : f.name[i] # "README"
    /\ f.parses
    /\ {"striker", "bowler"} \subseteq f.frame.cols

\* The rows of the acceptable files among the first n of the listing, in
\* listing order.
RECURSIVE RowsOfFirst(_)
RowsOfFirst(n) ==
    IF n = 0 THEN <<>>
    ELSE RowsOfFirst(n - 1) \o (IF Acceptable(listing[n]) THEN listing[n].frame.rows ELSE <<>>)

RECURSIVE FramesOfFirst(_)
FramesOfFirst(n) ==
    IF n = 0 THEN <<>>
    ELSE FramesOfFirst(n - 1) \o (IF Acceptable(listing[n]) THEN <<listing[n].frame>> ELSE <<>>)

Considered == Min(Len(listing), FileCap)

SomeAccepted == fetch_ok /\ \E i \in 1..Considered : Acceptable(listing[i])

\* C9: files are processed in listing order up to the cap; a rejected file
\* contributes nothing and does not disturb the files after it; with at least
\* one accepted file the ledger is the concatenation, in listing order and
\* without deduplication, of the rows of the accepted files.
C9_LedgerIsConcatenation ==
    /\ spc = "loop" => /\ idx \in 1..(Considered + 1)
                       /\ match_data_list = FramesOfFirst(idx - 1)
    /\ (Loaded /\ SomeAccepted) =>
            /\ data.rows = RowsOfFirst(Considered)
            /\ {"striker", "bowler"} \subseteq data.cols
            /\ ~load_error

\* C9 witness: a file without the bowler column ahead of a well-formed one:
\* the ledger holds the rows of the well-formed file only.
C9_Witness ==
    /\ spc = "loaded"
    /\ listing = <<File_NoBowler, File_A>>
    /\ data.rows = File_A.frame.rows

\* C10: with no accepted file, or a failed load, get_cleaned_data returns the
\* empty ledger and lets no exception out, and the run ends on the 'data
\* unavailable' notice with no head-to-head or phase aggregation evaluated.
C10_EmptyLedgerGraceful ==
    /\ spc # "crashed"
    /\ (Loaded /\ ~SomeAccepted) => data = EmptyFrame /\ load_error
    /\ (spc = "shown" /\ ~SomeAccepted) => outcome = [kind |-> "unavailable"]

\* C10 witness: every file of the capped listing is rejected and the run has
\* ended on the notice.
C10_Witness ==
    /\ spc = "shown" /\ fetch_ok
    /\ listing = <<File_Corrupt, File_NoBowler>>
    /\ data = EmptyFrame /\ outcome = [kind |-> "unavailable"]

====
